---- MODULE Spec2Model ----
(***************************************************************************)
(* Model of maintain_ice_links.py (JBEI/edd-scripts): the script that      *)
(* reconciles the experiment links stored on ICE entries with the studies  *)
(* EDD knows for each strain.  The state machine follows main(): a         *)
(* strain-driven pass (process_edd_strain per EDD strain), then the entry  *)
(* sweep (process_ice_entries / process_ice_entry), then the summary in    *)
(* the finally block.  The script is Python 2: an uncaught KeyError,       *)
(* AttributeError or ValueError raised inside a handler leaves the handler *)
(* at that statement and is caught by main's "except Exception".           *)
(***************************************************************************)
EXTENDS Integers, Sequences, FiniteSets, TLC

\* ---------------------------------------------------------------------------
\* Bounds of the model
\* ---------------------------------------------------------------------------
MaxStrains == 2      \* EDD strains returned by search_strains
MaxLinks == 1        \* experiment links initially stored on entry uA

\* ---------------------------------------------------------------------------
\* Program constants
\* ---------------------------------------------------------------------------
test_edd_strain_limit == 10
test_ice_entry_limit == 10
ICE_RESULT_PAGE_SIZE == 100
DEFAULT_PAGE_NUMBER == 1

None == [none |-> TRUE]

\* ---------------------------------------------------------------------------
\* URLs.  A URL is a record: host (hostname class), form (path shape),
\* study (embedded study id), https (scheme), caps (does the text hold an
\* upper-case letter).  unicode.lower() clears caps and nothing else.
\* ---------------------------------------------------------------------------
StudyIds == {1, 2}
Names == {"A", "B"}
Labels == Names \cup {""}          \* "" stands for a missing / empty label
Uuids == {"uA", "uB"}              \* the entries of this ICE deployment
RegistryIds == {"", "uA", "uZ"}    \* registry_id values of EDD strains

Url(host, form, study, https, caps) ==
    [host |-> host, form |-> form, study |-> study, https |-> https, caps |-> caps]

Lower(url) == [url EXCEPT !.caps = FALSE]

\* urlparse(EDD_URL).hostname is the host class "edd"; a test deployment of EDD
\* other than EDD_URL is "test", a listed developer machine is "dev".
IsStudyUrl(url) == url.host = "edd" /\ url.form = "study"
IsPerlStudyUrl(url) == url.host = "edd" /\ url.form = "perl"

is_development_url(url) == url.host = "dev"

\* main() refuses to run unless EDD_URL and ICE_URL are both test deployments or
\* both not, so EDD_URL's own hostname is a test hostname exactly when the ICE
\* deployment being cleaned is one.
is_edd_test_instance_url(url, cleaning_test) ==
    url.host = "test" \/ (url.host = "edd" /\ cleaning_test)

get_abs_study_browser_url(study_pk) == Url("edd", "study", study_pk, TRUE, FALSE)

\* '%(scheme)://edd.jbei.org/...' % {...}: "%(scheme)" is followed by ':',
\* which is no conversion type, so the formatting raises ValueError and the
\* function never returns a URL.
build_perl_study_url(study_pk, https) ==
    [exc |-> "ValueError", url |-> Url("edd", "perl", study_pk, https, TRUE)]

\* ---------------------------------------------------------------------------
\* Experiment links and the URL-keyed cache (a dict lower-case URL -> link).
\* A dict is modelled as the set of its values; the key of a value is
\* Lower(link.url).
\* ---------------------------------------------------------------------------
Link(id, url, label) == [id |-> id, url |-> url, label |-> label]

LinkPool ==
    { Link(1, Url("edd", "study", 1, TRUE, FALSE), "A"),
      Link(2, Url("edd", "study", 1, TRUE, FALSE), "B"),
      Link(3, Url("edd", "study", 1, TRUE, FALSE), ""),
      Link(4, Url("edd", "study", 1, TRUE, TRUE), "A"),
      Link(5, Url("edd", "perl", 1, FALSE, TRUE), "A"),
      Link(6, Url("edd", "perl", 1, TRUE, TRUE), "A"),
      Link(7, Url("dev", "perl", 1, FALSE, TRUE), "A"),
      Link(8, Url("test", "study", 1, TRUE, FALSE), "A"),
      Link(9, Url("ext", "other", 0, TRUE, FALSE), "B"),
      Link(10, Url("edd", "study", 2, TRUE, FALSE), "B"),
      Link(11, Url("edd", "perl", 2, FALSE, TRUE), "B") }

Keys(dict) == { Lower(l.url) : l \in dict }
DictGet(dict, key) ==
    IF key \in Keys(dict) THEN CHOOSE l \in dict : Lower(l.url) = key ELSE None
DictDel(dict, key) == { l \in dict : Lower(l.url) # key }

\* dict.pop(key) with no default: KeyError when the key is absent.
DictPopRaises(dict, key) == key \notin Keys(dict)

\* ICE keeps at most one experiment link per URL on an entry.
UniqueUrls(ls) == \A a, b \in ls : Lower(a.url) = Lower(b.url) => a = b

MaxOf(S) == CHOOSE m \in S : \A x \in S : x <= m
FreshId(ls) == MaxOf({ l.id : l \in ls } \cup {Cardinality(LinkPool)}) + 1

\* The ICE server's handling of POST /rest/parts/<id>/experiments/: the link
\* named by the id header is rewritten, else the link already at this URL is
\* overwritten, else a new link is stored.
IcePost(ls, url, label, link_id) ==
    LET byId == { l \in ls : l.id = link_id }
        byUrl == { l \in ls : Lower(l.url) = Lower(url) }
        id == IF byId # {} THEN link_id
              ELSE IF byUrl # {} THEN (CHOOSE l \in byUrl : TRUE).id
              ELSE FreshId(ls)
    IN  { l \in ls : l.id # id /\ Lower(l.url) # Lower(url) }
            \cup { Link(id, url, label) }

IceDelete(ls, link_id) == { l \in ls : l.id # link_id }

\* ---------------------------------------------------------------------------
\* IceApi.link_entry_to_study (ice.py).  ls: the entry's links as ICE returns
\* them for the GET.  old_study_name "" and old_study_url None stand for the
\* Python default None.  Result: the entry's links afterwards and the sequence
\* of POSTs sent (the id header of each, 0 for none).
\* ---------------------------------------------------------------------------
MinOf(S) == CHOOSE m \in S : \A x \in S : m <= x

RECURSIVE PostOutdated(_, _, _, _)
PostOutdated(ls, ids, url, label) ==
    IF ids = {} THEN [links |-> ls, posts |-> << >>]
    ELSE LET id == MinOf(ids)
             rest == PostOutdated(IcePost(ls, url, label, id), ids \ {id}, url, label)
         IN  [links |-> rest.links, posts |-> <<id>> \o rest.posts]

link_entry_to_study(ls, study_url, study_name, old_study_name, old_study_url) ==
    LET current_study_links ==
            { l \in ls : Lower(study_url) = Lower(l.url) /\ study_name = l.label }
        old_name == IF old_study_name # "" /\ old_study_name # study_name
                    THEN old_study_name ELSE ""
        old_url == IF old_study_url # None /\ old_study_url # study_url
                   THEN old_study_url ELSE None
        outdated_study_links ==
            IF old_name # "" \/ old_url # None
            THEN { l \in ls :
                     \/ (old_name # "" /\ Lower(study_url) = Lower(l.url)
                                       /\ old_name = l.label)
                     \/ (old_url # None /\ Lower(old_url) = Lower(l.url)) }
            ELSE {}
    IN  IF current_study_links # {} /\ outdated_study_links = {}
        THEN [links |-> ls, posts |-> << >>]
        ELSE IF outdated_study_links # {}
        THEN PostOutdated(ls, { l.id : l \in outdated_study_links }, study_url, study_name)
        ELSE [links |-> IcePost(ls, study_url, study_name, 0), posts |-> <<0>>]

\* ---------------------------------------------------------------------------
\* State
\* ---------------------------------------------------------------------------
VARIABLES
    strains,      \* EDD: registry_id of each strain, in search_strains order (pk = index)
    studies,      \* EDD: study pk -> [exists, name, strains]
    cfg,          \* run configuration: cleaning_ice_test_instance, ice class, sweep skip
    entryType,    \* ICE: uuid -> entry type
    links,        \* ICE: uuid -> the entry's experiment links
    pc,           \* position of main()
    summary,      \* the ProcessingSummary object
    strainNo,     \* index of the strain the for loop of main() is at
    cur,          \* locals of the running process_edd_strain / process_ice_entry
    sweep,        \* locals of process_ice_entries
    calls,        \* EDD / ICE calls issued by the handler invocation in progress
    exc,          \* exception that ended the try block of main(), "" if none
    linksAtSweep, \* links as they were when process_ice_entries was entered
    api           \* the last call made on the ice client directly, and its requests

vars == <<strains, studies, cfg, entryType, links, pc, summary, strainNo, cur,
          sweep, calls, exc, linksAtSweep, api>>

env == <<strains, studies, cfg, entryType, api>>

\* A call record: the function, the ICE entry, the link id, the URL and label
\* passed, and the EDD pk (strain or study) where the call has one.
Call(fn, entry, link, url, label, pk) ==
    [fn |-> fn, entry |-> entry, link |-> link, url |-> url, label |-> label, pk |-> pk]

\* The order in which the entry search lists entries, and the entries of
\* this ICE deployment in that order.
EntryOrder == <<"uA", "uB", "uC", "uD", "uE", "uF">>
ICE_ENTRIES == SelectSeq(EntryOrder, LAMBDA u : u \in DOMAIN links)

STRAIN == "STRAIN"
PLASMID == "PLASMID"

NoStrain == [entry |-> "", all |-> {}, unprocessed |-> {}, missing |-> {},
             studies |-> << >>, items |-> {}]

NoApi == [n |-> 0, fn |-> "", args |-> << >>, prev |-> << >>, first |-> {},
          before |-> {}, posts |-> << >>, deletes |-> << >>, result |-> None]

NoSweep == [page |-> << >>, next_page |-> FALSE, ice_page_num |-> 1, idx |-> 1,
            tested |-> 0, hit_test_limit |-> FALSE]

ProcessingSummary ==
    [ total_ice_entries_processed |-> 0,
      existing_links_processed |-> 0,
      invalid_links_pruned |-> 0,
      development_links_pruned |-> 0,
      test_links_pruned |-> 0,
      unmaintained_links_renamed |-> 0,
      valid_links_skipped |-> 0,
      missing_links_created |-> 0,
      perl_links_updated |-> 0,
      skipped_external_links |-> 0,
      previously_processed_strains_skipped |-> 0,
      orphaned_edd_strains |-> << >>,
      stepchild_edd_strains |-> << >>,
      non_strain_ice_parts_referenced |-> << >>,
      processed_edd_strain_uuids |-> {},
      printed |-> FALSE ]

StudyConfigs ==
    { st \in [StudyIds -> [exists : BOOLEAN, name : Names, strains : SUBSET {1}]] :
        /\ st[1] = [exists |-> TRUE, name |-> "A", strains |-> st[1].strains]
        /\ st[2].name = "B"
        /\ st[2].strains = {} }

StrainLists == UNION { [1..n -> RegistryIds] : n \in 1..MaxStrains }

LinkSets(pool, max) == { S \in SUBSET pool : Cardinality(S) <= max /\ UniqueUrls(S) }

InitWith(stubs, skips) ==
    /\ \E a \in LinkSets(LinkPool, MaxLinks),
          b \in LinkSets({ l \in LinkPool : l.id = 7 }, 1) :
            links = [u \in Uuids |-> IF u = "uA" THEN a ELSE b]
    /\ strains \in StrainLists
    /\ studies \in StudyConfigs
    /\ cfg \in [cleaning : BOOLEAN, stub : stubs, skip : skips]
    /\ \E t \in {STRAIN, PLASMID} :
            entryType = [u \in Uuids |-> IF u = "uA" THEN t ELSE STRAIN]
    /\ pc = "strain"
    /\ summary = ProcessingSummary
    /\ strainNo = 1
    /\ cur = NoStrain
    /\ sweep = NoSweep
    /\ calls = << >>
    /\ exc = ""
    /\ linksAtSweep = links
    /\ api = NoApi

\* process_edd_strain and process_ice_entries take the ice client as an
\* argument: an IceApi, or the IceTestStub that main() constructs.
Init == InitWith(BOOLEAN, {TRUE})

\* ---------------------------------------------------------------------------
\* ProcessingSummary recording operations
\* ---------------------------------------------------------------------------
Bump(s, f) == [s EXCEPT ![f] = @ + 1]

removed_development_link(s) ==
    Bump(Bump(s, "existing_links_processed"), "development_links_pruned")
removed_test_link(s) ==
    Bump(Bump(s, "existing_links_processed"), "test_links_pruned")
\* removed_invalid_link, renamed_unmaintained_link and created_missing_link
\* update the counters first and build their log message afterwards.
removed_invalid_link(s) ==
    Bump(Bump(s, "existing_links_processed"), "invalid_links_pruned")
renamed_unmaintained_link(s) ==
    Bump(Bump(s, "existing_links_processed"), "unmaintained_links_renamed")
skipped_valid_link(s) ==
    Bump(Bump(s, "existing_links_processed"), "valid_links_skipped")
\* updated_perl_link without "self._existing_links_processed += 1".
updated_perl_link_uncounted(s) == Bump(s, "perl_links_updated")
updated_perl_link(s) ==
    Bump(Bump(s, "existing_links_processed"), "perl_links_updated")
created_missing_link(s) == Bump(s, "missing_links_created")
skipped_external_link(s) == Bump(s, "skipped_external_links")

\* processed_edd_strain without the entry in _processed_edd_strain_uuids.
processed_edd_strain_unmarked(s, registry_id) == s
processed_edd_strain(s, registry_id) ==
    [s EXCEPT !.processed_edd_strain_uuids = @ \cup {registry_id}]
found_orphaned_edd_strain(s, pk, registry_id) ==
    [processed_edd_strain(s, registry_id) EXCEPT !.orphaned_edd_strains = Append(@, pk)]
\* found_stepchild_edd_strain without the append to _stepchild_edd_strains.
found_stepchild_edd_strain_unrecorded(s, pk, registry_id) ==
    processed_edd_strain(s, registry_id)
found_stepchild_edd_strain(s, pk, registry_id) ==
    [processed_edd_strain(s, registry_id) EXCEPT !.stepchild_edd_strains = Append(@, pk)]
found_non_strain_entry(s, pk, registry_id) ==
    [processed_edd_strain(s, registry_id)
        EXCEPT !.non_strain_ice_parts_referenced = Append(@, registry_id)]

is_edd_strain_processed(s, strain_uuid) == strain_uuid \in s.processed_edd_strain_uuids

\* The log message of created_missing_link names the key 'uuid entry_uuid',
\* that of renamed_unmaintained_link reads existing_link.name (an
\* ExperimentLink has label, no name), and process_edd_strain passes the uuid
\* string where removed_invalid_link reads ice_entry.uuid: each raises after
\* the counters were updated.
created_missing_link_raises == "KeyError"
renamed_unmaintained_link_raises == "AttributeError"
removed_invalid_link_raises(ice_entry_is_object) ==
    IF ice_entry_is_object THEN "" ELSE "AttributeError"
\* Performance defines no attribute total_links_already_valid, so
\* "overall_performance.total_links_already_valid += 1" raises.
total_links_already_valid_raises == "AttributeError"

\* ---------------------------------------------------------------------------
\* EDD (EddApi).  Studies referencing a strain, in pk order.
\* ---------------------------------------------------------------------------
RECURSIVE SetToSeq(_)
SetToSeq(S) == IF S = {} THEN << >> ELSE <<MinOf(S)>> \o SetToSeq(S \ {MinOf(S)})

get_strain_studies(st, strain_pk) ==
    SetToSeq({ s \in StudyIds : st[s].exists /\ strain_pk \in st[s].strains })

\* get_study_strains: the strains of a study; an absent study is HTTP 404.
get_study_strains(st, study_pk) ==
    IF study_pk \in StudyIds /\ st[study_pk].exists
    THEN [exc |-> "", strains |-> st[study_pk].strains]
    ELSE [exc |-> "HTTPError404", strains |-> {}]

\* ---------------------------------------------------------------------------
\* Calls on the ice object.  IceTestStub overrides link_entry_to_study and
\* remove_experiment_link with bodies that send nothing.
\* ---------------------------------------------------------------------------
\* IceApi.remove_experiment_link: one DELETE of the link resource.
remove_experiment_link(ls, link_id) ==
    [links |-> IceDelete(ls, link_id), deletes |-> <<link_id>>]

\* IceApi.unlink_entry_from_study: GET the entry's links, then
\* remove_experiment_link for every link at study_url (case-insensitive);
\* False when there is none.
unlink_entry_from_study(ls, study_url) ==
    LET study_links == { l \in ls : Lower(study_url) = Lower(l.url) }
    IN  IF study_links = {}
        THEN [links |-> ls, deletes |-> << >>, result |-> FALSE]
        ELSE [links |-> ls \ study_links,
              deletes |-> SetToSeq({ l.id : l \in study_links }),
              result |-> TRUE]

RECURSIVE PostCalls(_, _, _, _)
PostCalls(posts, entry, url, label) ==
    IF posts = << >> THEN << >>
    ELSE <<Call("ice.POST", entry, Head(posts), url, label, 0)>>
             \o PostCalls(Tail(posts), entry, url, label)

\* Calls on the ice client as the script issues them: the entry's links
\* afterwards (ls) and the calls and requests made (calls).  The three
\* overrides of IceTestStub are "return True", "pass" and "pass".
IceLinkInherited(stub, ls, entry, pk, study_url, study_name, old_study_name, old_study_url) ==
    LET r == link_entry_to_study(ls, study_url, study_name, old_study_name, old_study_url)
        call == <<Call("ice.link_entry_to_study", entry, 0, study_url, study_name, pk)>>
    IN  [ls |-> r.links,
         calls |-> call \o PostCalls(r.posts, entry, study_url, study_name)]
IceLink(stub, ls, entry, pk, study_url, study_name, old_study_name, old_study_url) ==
    LET r == link_entry_to_study(ls, study_url, study_name, old_study_name, old_study_url)
        call == <<Call("ice.link_entry_to_study", entry, 0, study_url, study_name, pk)>>
    IN  IF stub THEN [ls |-> ls, calls |-> call]
        ELSE [ls |-> r.links,
              calls |-> call \o PostCalls(r.posts, entry, study_url, study_name)]

\* ice.remove_experiment_link(entry, link_id); deletes: the DELETEs sent.
IceRemove(stub, ls, entry, link) ==
    LET r == remove_experiment_link(ls, link.id)
    IN  [ls |-> IF stub THEN ls ELSE r.links,
         deletes |-> IF stub THEN << >> ELSE r.deletes,
         calls |-> <<Call("ice.remove_experiment_link", entry, link.id, link.url, "", 0)>>]

\* ice.unlink_entry_from_study(entry, study_id, study_url, logger).
IceUnlink(stub, ls, entry, pk, study_url) ==
    LET r == unlink_entry_from_study(ls, study_url)
    IN  [ls |-> IF stub THEN ls ELSE r.links,
         deletes |-> IF stub THEN << >> ELSE r.deletes,
         result |-> IF stub THEN TRUE ELSE r.result,
         calls |-> <<Call("ice.unlink_entry_from_study", entry, 0, study_url, "", pk)>>]

\* ---------------------------------------------------------------------------
\* do_initial_run_ice_entry_link_processing.  experiment_link is what the
\* caller's loop variable holds: an ExperimentLink, or a dict key (a URL) when
\* the caller iterates over the cache dict itself; reading .url of a key
\* raises AttributeError.
\* ---------------------------------------------------------------------------
NOT_PROCESSED_OUTCOME == "NOT_PROCESSED"
REMOVED_DEVELOPMENT_URL_OUTCOME == "REMOVED_DEV_URL"
REMOVED_TEST_URL_OUTCOME == "REMOVED_TEST_URL"
UPDATED_PERL_URL_OUTCOME == "UPDATED_PERL_URL"
REMOVED_BAD_STUDY_LINK == "REMOVED_NON_EXISTENT_STUDY_LINK"

IsExperimentLink(x) == "url" \in DOMAIN x

Result(e, outcome, ls, summ, cs) ==
    [exc |-> e, outcome |-> outcome, ls |-> ls, summary |-> summ, calls |-> cs]

do_initial_run_ice_entry_link_processing(stub, st, ls, entry, experiment_link, cleaning_ice_test_instance, query_edd_strains, summ) ==
    IF ~IsExperimentLink(experiment_link)
    THEN Result("AttributeError", "", ls, summ, << >>)
    ELSE IF is_development_url(experiment_link.url)
    THEN LET r == IceRemove(stub, ls, entry, experiment_link)
         IN  Result("", REMOVED_DEVELOPMENT_URL_OUTCOME, r.ls,
                    removed_development_link(summ), r.calls)
    ELSE IF (~cleaning_ice_test_instance)
              /\ is_edd_test_instance_url(experiment_link.url, cleaning_ice_test_instance)
    THEN LET r == IceRemove(stub, ls, entry, experiment_link)
         IN  Result("", REMOVED_TEST_URL_OUTCOME, r.ls, removed_test_link(summ), r.calls)
    ELSE IF ~IsPerlStudyUrl(experiment_link.url)
    THEN Result("", NOT_PROCESSED_OUTCOME, ls, summ, << >>)
    ELSE
      LET study_pk == experiment_link.url.study
          q == IF query_edd_strains THEN get_study_strains(st, study_pk)
               ELSE [exc |-> "", strains |-> {}]
          qcalls == IF query_edd_strains
                    THEN <<Call("edd.get_study_strains", "", 0, None, "", study_pk)>>
                    ELSE << >>
      IN  IF q.exc # "" THEN Result(q.exc, "", ls, summ, qcalls)
          ELSE IF q.strains = {}
          THEN LET r == IceRemove(stub, ls, entry, experiment_link)
               IN  Result("", REMOVED_BAD_STUDY_LINK, r.ls, removed_invalid_link(summ),
                          qcalls \o r.calls)
          ELSE LET study_url == get_abs_study_browser_url(study_pk)
                   r == IceLink(stub, ls, entry, study_pk, study_url, st[study_pk].name,
                                "", experiment_link.url)
               IN  Result("", UPDATED_PERL_URL_OUTCOME, r.ls, updated_perl_link(summ),
                          qcalls \o <<Call("edd.get_study", "", 0, None, "", study_pk)>>
                                 \o r.calls)

\* ---------------------------------------------------------------------------
\* process_edd_strain, the body of "for study in strain_studies_page.results".
\* ---------------------------------------------------------------------------
StudyResult(e, ls, c, summ, cs) ==
    [exc |-> e, ls |-> ls, cur |-> c, summary |-> summ, calls |-> cs]

\* "if (not strain_to_study_link) or (strain_to_study_link.label != study.name)"
\* and its else branch.
CreateRenameOrSkip(stub, ls, c, summ, study, study_url, study_name, strain_to_study_link) ==
    IF strain_to_study_link = None \/ strain_to_study_link.label # study_name
    THEN LET old_study_name ==
                 IF strain_to_study_link # None THEN strain_to_study_link.label ELSE ""
             r == IceLink(stub, ls, c.entry, study, study_url, study_name,
                          old_study_name, None)
         IN  IF old_study_name # ""
             THEN StudyResult(renamed_unmaintained_link_raises, r.ls, c,
                              renamed_unmaintained_link(summ), r.calls)
             ELSE StudyResult(created_missing_link_raises, r.ls, c,
                              created_missing_link(summ), r.calls)
    ELSE IF total_links_already_valid_raises # ""
    THEN StudyResult(total_links_already_valid_raises, ls, c, summ, << >>)
    ELSE StudyResult("", ls, c, skipped_valid_link(summ), << >>)

\* The else branch of "if strain_to_study_link": look for a Perl-era link.
PerlBranch(stub, ls, c, summ, study, study_url, study_name) ==
    LET p1 == build_perl_study_url(study, FALSE)
        k1 == Lower(p1.url)
        l1 == DictGet(c.missing, k1)
        c1 == [c EXCEPT !.missing = DictDel(@, k1)]
        p2 == build_perl_study_url(study, TRUE)
        k2 == Lower(p2.url)
        l2 == DictGet(c1.missing, k2)
        c2 == [c1 EXCEPT !.missing = DictDel(@, k2)]
        Update(cc, perl_study_url, link) ==
            LET r == IceLink(stub, ls, c.entry, study, study_url, study_name,
                             "", perl_study_url)
            IN  StudyResult("", r.ls, cc, updated_perl_link(summ), r.calls)
    IN  IF p1.exc # "" THEN StudyResult(p1.exc, ls, c, summ, << >>)
        ELSE IF DictPopRaises(c.missing, k1) THEN StudyResult("KeyError", ls, c, summ, << >>)
        ELSE IF l1 # None THEN Update(c1, k1, l1)
        ELSE IF p2.exc # "" THEN StudyResult(p2.exc, ls, c1, summ, << >>)
        ELSE IF DictPopRaises(c1.missing, k2) THEN StudyResult("KeyError", ls, c1, summ, << >>)
        ELSE IF l2 # None THEN Update(c2, k2, l2)
        ELSE CreateRenameOrSkip(stub, ls, c2, summ, study, study_url, study_name, None)

StudyOutcome(stub, st, ls, c, summ, study) ==
    LET study_name == st[study].name
        study_url == Lower(get_abs_study_browser_url(study))
        strain_to_study_link == DictGet(c.all, study_url)
        c0 == [c EXCEPT !.unprocessed = DictDel(@, study_url)]
    IN  IF DictPopRaises(c.unprocessed, study_url)
        THEN StudyResult("KeyError", ls, c, summ, << >>)
        ELSE IF strain_to_study_link # None
        THEN IF DictPopRaises(c0.missing, study_url)
             THEN StudyResult("KeyError", ls, c0, summ, << >>)
             ELSE CreateRenameOrSkip(stub, ls,
                                     [c0 EXCEPT !.missing = DictDel(@, study_url)], summ,
                                     study, study_url, study_name, strain_to_study_link)
        ELSE PerlBranch(stub, ls, c0, summ, study, study_url, study_name)

\* The leftover loop without its "if study_url_match" test.
LeftoverOutcomeNoPatternTest(stub, st, ls, c, summ, cleaning, experiment_link) ==
    LET r == do_initial_run_ice_entry_link_processing(
                 stub, st, ls, c.entry, experiment_link, cleaning, FALSE, summ)
        d == IceRemove(stub, ls, c.entry, experiment_link)
    IN  IF r.exc # "" \/ r.outcome # NOT_PROCESSED_OUTCOME THEN r
        ELSE Result(removed_invalid_link_raises(FALSE), "", d.ls,
                    removed_invalid_link(summ), d.calls)
\* The body of "for link_url, experiment_link in unprocessed...iteritems()".
LeftoverOutcome(stub, st, ls, c, summ, cleaning, experiment_link) ==
    LET r == do_initial_run_ice_entry_link_processing(
                 stub, st, ls, c.entry, experiment_link, cleaning, FALSE, summ)
    IN  IF r.exc # "" \/ r.outcome # NOT_PROCESSED_OUTCOME THEN r
        ELSE IF IsStudyUrl(experiment_link.url)
        THEN LET d == IceRemove(stub, ls, c.entry, experiment_link)
             IN  Result(removed_invalid_link_raises(FALSE), "", d.ls,
                        removed_invalid_link(summ), d.calls)
        ELSE Result("", NOT_PROCESSED_OUTCOME, ls, skipped_external_link(summ), << >>)

\* ---------------------------------------------------------------------------
\* IceApi.search_entries + IcePagedResult.of: one page of the entry search.
\* ---------------------------------------------------------------------------
Min2(a, b) == IF a <= b THEN a ELSE b

\* IcePagedResult.of for a paged reply with a query URL and a result limit:
\* the paging context it infers.  next_page and prev_page are the offsets
\* their URLs carry, NoPage for the Python None; none: of() returned None
\* (resultCount 0).  "if next_page_index:" and "if prev_page_index:" test
\* truthiness, so an index of 0 gives no URL.
NoPage == -1

IcePagedResult_of(count, result_limit, offset) ==
    LET current_page_index == offset \div result_limit
        has_next == \/ ((current_page_index + 1) * result_limit) + result_limit <= count
                    \/ current_page_index * result_limit < count
        next_page_index == IF has_next THEN current_page_index + 1 ELSE 0
        prev_page_index == IF current_page_index >= 1 THEN current_page_index - 1 ELSE 0
    IN  [none |-> count = 0,
         count |-> count,
         next_page |-> IF next_page_index # 0
                       THEN next_page_index * result_limit ELSE NoPage,
         prev_page |-> IF prev_page_index # 0
                       THEN prev_page_index * result_limit ELSE NoPage]

\* A search that answers every request with the first page.
search_entries_first_page(page_number) ==
    LET result_limit == ICE_RESULT_PAGE_SIZE
        count == Len(ICE_ENTRIES)
        r == IcePagedResult_of(count, result_limit, 0)
    IN  [page |-> SubSeq(ICE_ENTRIES, 1, Min2(result_limit, count)),
         next_page |-> r.next_page # NoPage]
search_entries(page_number) ==
    LET result_limit == ICE_RESULT_PAGE_SIZE
        offset == result_limit * (page_number - 1)
        count == Len(ICE_ENTRIES)
        r == IcePagedResult_of(count, result_limit, offset)
    IN  [page |-> SubSeq(ICE_ENTRIES, offset + 1, Min2(offset + result_limit, count)),
         next_page |-> r.next_page # NoPage]

\* ---------------------------------------------------------------------------
\* The strain-driven pass
\* ---------------------------------------------------------------------------
\* An exception that is logged where it occurs, the loop going on.
RaiseAndGoOn(e) == /\ exc' = e
                   /\ pc' = pc
Raise(e) == /\ exc' = e
            /\ pc' = "finally"

\* The limit test taken one strain early.
hit_strain_limit_early == strainNo = test_edd_strain_limit
hit_strain_limit == strainNo - 1 = test_edd_strain_limit

\* The entry lookup without "if not isinstance(ice_entry, Strain)".
IsStrainEntryUntyped(registry_id) == registry_id \in Uuids
\* The registry_id is non-empty, ice.get_entry finds an entry for it, and the
\* entry is an instance of ice.Strain.
IsStrainEntry(registry_id) ==
    IF registry_id \in Uuids THEN entryType[registry_id] = STRAIN ELSE FALSE

\* The entry lookup without the test for an empty registry_id before it.
get_entry_calls_unguarded(registry_id) ==
    <<Call("ice.get_entry", registry_id, 0, None, "", 0)>>
\* "if not edd_strain.registry_id: ... return False" comes before
\* ice.get_entry(ice_entry_uuid): the calls made up to the entry lookup.
get_entry_calls(registry_id) ==
    IF registry_id = "" THEN << >>
    ELSE <<Call("ice.get_entry", registry_id, 0, None, "", 0)>>

\* process_edd_strain up to the study loop, for a strain that is skipped:
\* orphaned, stepchild or reference to a non-strain entry.
SkipStrain ==
    /\ pc = "strain" /\ strainNo <= Len(strains) /\ ~hit_strain_limit
    /\ LET registry_id == strains[strainNo]
       IN  /\ ~IsStrainEntry(registry_id)
           /\ calls' = get_entry_calls(registry_id)
           /\ IF registry_id = ""
              THEN summary' = found_orphaned_edd_strain(summary, strainNo, registry_id)
              ELSE IF registry_id \notin Uuids
              THEN summary' = found_stepchild_edd_strain(summary, strainNo, registry_id)
              ELSE summary' = found_non_strain_entry(summary, strainNo, registry_id)
    /\ strainNo' = strainNo + 1
    /\ cur' = NoStrain
    /\ UNCHANGED <<env, links, pc, sweep, exc, linksAtSweep>>

\* process_edd_strain up to the study loop, for a strain whose registry_id
\* names a Strain entry: cache the entry's links, fetch the strain's studies.
BeginStrain ==
    /\ pc = "strain" /\ strainNo <= Len(strains) /\ ~hit_strain_limit
    /\ LET registry_id == strains[strainNo]
       IN  /\ IsStrainEntry(registry_id)
           /\ cur' = [entry |-> registry_id,
                      all |-> links[registry_id],
                      unprocessed |-> links[registry_id],
                      missing |-> links[registry_id],
                      studies |-> get_strain_studies(studies, strainNo),
                      items |-> links[registry_id]]
           /\ calls' = get_entry_calls(registry_id) \o
                        << Call("ice.get_entry_experiments", registry_id, 0, None, "", 0),
                           Call("edd.get_strain_studies", "", 0, None, "", strainNo) >>
    /\ pc' = IF cur'.studies = << >> THEN "leftover" ELSE "studies"
    /\ UNCHANGED <<env, links, summary, strainNo, sweep, exc, linksAtSweep>>

StudyStep ==
    /\ pc = "studies" /\ cur.studies # << >>
    /\ \E r \in {StudyOutcome(cfg.stub, studies, links[cur.entry], cur, summary,
                             Head(cur.studies))} :
           /\ links' = [links EXCEPT ![cur.entry] = r.ls]
           /\ summary' = r.summary
           /\ calls' = calls \o r.calls
           /\ exc' = r.exc
           /\ cur' = [r.cur EXCEPT !.studies = IF r.exc = "" THEN Tail(@) ELSE @,
                                   !.items = r.cur.unprocessed]
           /\ pc' = IF r.exc # "" THEN "finally"
                    ELSE IF Tail(cur.studies) = << >> THEN "leftover" ELSE "studies"
    /\ UNCHANGED <<env, strainNo, sweep, linksAtSweep>>

LeftoverStep ==
    /\ pc = "leftover"
    /\ \E experiment_link \in cur.items :
         \E r \in {LeftoverOutcome(cfg.stub, studies, links[cur.entry], cur, summary,
                                  cfg.cleaning, experiment_link)} :
             /\ links' = [links EXCEPT ![cur.entry] = r.ls]
             /\ summary' = r.summary
             /\ calls' = calls \o r.calls
             /\ exc' = r.exc
             /\ cur' = [cur EXCEPT !.items = @ \ {experiment_link}]
             /\ pc' = IF r.exc # "" THEN "finally" ELSE "leftover"
    /\ UNCHANGED <<env, strainNo, sweep, linksAtSweep>>

\* The end of process_edd_strain and the bookkeeping of main()'s for loop.
FinishStrain ==
    /\ pc = "leftover" /\ cur.items = {}
    /\ summary' = processed_edd_strain(summary, strains[strainNo])
    /\ strainNo' = strainNo + 1
    /\ pc' = "strain"
    /\ UNCHANGED <<env, links, cur, sweep, calls, exc, linksAtSweep>>

\* ---------------------------------------------------------------------------
\* The entry sweep: process_ice_entries and process_ice_entry
\* ---------------------------------------------------------------------------
\* main() after the strain loop: PROCESS_ICE_ENTRIES is True, so the sweep
\* starts with the first page of the entry search.
StartSweep ==
    /\ pc = "strain" /\ (strainNo > Len(strains) \/ hit_strain_limit)
    /\ LET first == search_entries(DEFAULT_PAGE_NUMBER)
       IN  /\ sweep' = [NoSweep EXCEPT !.page = first.page, !.next_page = first.next_page]
           /\ pc' = IF first.page = << >> THEN "finally" ELSE "sweep"
    /\ calls' = <<Call("ice.search_entries", "", 0, None, "", DEFAULT_PAGE_NUMBER)>>
    /\ linksAtSweep' = links
    /\ cur' = NoStrain
    /\ UNCHANGED <<env, links, summary, strainNo, exc>>

\* The sweep without its test for entries the strain pass has processed.
already_processed_untested(entry_uuid) == FALSE
\* The test of "if processing_summary.is_edd_strain_processed(entry.uuid)";
\* cfg.skip is FALSE in the variant of the sweep that has no such test.
already_processed(entry_uuid) ==
    cfg.skip /\ is_edd_strain_processed(summary, entry_uuid)

\* "if processing_summary.is_edd_strain_processed(entry.uuid): ... continue"
SkipVisitedEntry ==
    /\ pc = "sweep" /\ sweep.idx <= Len(sweep.page)
    /\ already_processed(sweep.page[sweep.idx])
    /\ summary' = Bump(summary, "previously_processed_strains_skipped")
    /\ sweep' = [sweep EXCEPT !.idx = @ + 1]
    /\ calls' = << >>
    /\ UNCHANGED <<env, links, pc, strainNo, cur, exc, linksAtSweep>>

\* The loop of process_ice_entry taking the cached ExperimentLinks themselves.
SweepItemsValues(dict) == dict
\* "for experiment_link in entry_experiments_list": the cache is a dict, so
\* the loop variable takes the dict's keys, the lower-case URLs.
SweepItems(dict) == Keys(dict)

\* process_ice_entry up to its loop: cache the entry's links.
BeginEntry ==
    /\ pc = "sweep" /\ sweep.idx <= Len(sweep.page)
    /\ ~already_processed(sweep.page[sweep.idx])
    /\ LET entry == sweep.page[sweep.idx]
       IN  /\ cur' = [NoStrain EXCEPT !.entry = entry, !.all = links[entry],
                                      !.items = SweepItems(links[entry])]
           /\ calls' = <<Call("ice.get_entry_experiments", entry, 0, None, "", 0)>>
    /\ pc' = "entry"
    /\ UNCHANGED <<env, links, summary, strainNo, sweep, exc, linksAtSweep>>

\* The loop body of process_ice_entry for one element.
EntryLinkOutcome(stub, st, ls, c, summ, cleaning, experiment_link) ==
    LET r == do_initial_run_ice_entry_link_processing(
                 stub, st, ls, c.entry, experiment_link, cleaning, TRUE, summ)
    IN  IF r.exc # "" \/ r.outcome # NOT_PROCESSED_OUTCOME THEN r
        ELSE IF ~IsStudyUrl(experiment_link.url)
        THEN Result("", NOT_PROCESSED_OUTCOME, ls, skipped_external_link(summ), << >>)
        ELSE LET study_pk == experiment_link.url.study
                 q == get_study_strains(st, study_pk)
                 qcall == <<Call("edd.get_study_strains", "", 0, None, "", study_pk)>>
                 d == IceRemove(stub, ls, c.entry, experiment_link)
             IN  IF q.exc = "HTTPError404" \/ q.strains = {}
                 THEN Result("", "", d.ls, removed_invalid_link(summ), qcall \o d.calls)
                 ELSE Result("", "", ls, skipped_valid_link(summ), qcall)

EntryLinkStep ==
    /\ pc = "entry"
    /\ \E experiment_link \in cur.items :
         \E r \in {EntryLinkOutcome(cfg.stub, studies, links[cur.entry], cur, summary,
                                   cfg.cleaning, experiment_link)} :
             /\ links' = [links EXCEPT ![cur.entry] = r.ls]
             /\ summary' = r.summary
             /\ calls' = calls \o r.calls
             /\ exc' = r.exc
             /\ cur' = [cur EXCEPT !.items = @ \ {experiment_link}]
             /\ pc' = IF r.exc # "" THEN "finally" ELSE "entry"
    /\ UNCHANGED <<env, strainNo, sweep, linksAtSweep>>

\* The sweep without its limit of entries.
hit_test_limit_never(tested_ice_entry_count) == FALSE
\* "hit_test_limit = tested_ice_entry_count == test_ice_entry_limit"
hit_test_limit(tested_ice_entry_count) == tested_ice_entry_count = test_ice_entry_limit

\* The end of process_ice_entry and the test-limit check of the for loop.
FinishEntry ==
    /\ pc = "entry" /\ cur.items = {}
    /\ summary' = Bump(summary, "total_ice_entries_processed")
    /\ LET hit == hit_test_limit(sweep.tested + 1)
       IN  /\ sweep' = [sweep EXCEPT !.tested = @ + 1, !.idx = @ + 1,
                                     !.hit_test_limit = hit]
           /\ pc' = IF hit THEN "finally" ELSE "sweep"
    /\ UNCHANGED <<env, links, strainNo, cur, calls, exc, linksAtSweep>>

\* After the for loop over a page: "if ...is_paged() and ...next_page" fetches
\* page_number=ice_page_num (which is still 1 after the first page) and then
\* increments it; with no next page the page variable is left as it is.
SweepPage ==
    /\ pc = "sweep" /\ sweep.idx > Len(sweep.page)
    /\ IF sweep.next_page
       THEN LET nxt == search_entries(sweep.ice_page_num)
            IN  /\ sweep' = [sweep EXCEPT !.page = nxt.page, !.next_page = nxt.next_page,
                                          !.ice_page_num = @ + 1, !.idx = 1]
                /\ pc' = IF nxt.page = << >> THEN "finally" ELSE "sweep"
                /\ calls' = <<Call("ice.search_entries", "", 0, None, "",
                                   sweep.ice_page_num)>>
       ELSE /\ sweep' = [sweep EXCEPT !.idx = 1]
            /\ pc' = "sweep"
            /\ calls' = << >>
    /\ UNCHANGED <<env, links, summary, strainNo, cur, exc, linksAtSweep>>

\* ---------------------------------------------------------------------------
\* Failures and the end of the run
\* ---------------------------------------------------------------------------
Running == pc \in {"strain", "studies", "leftover", "sweep", "entry"}

\* An EDD or ICE request of the next step fails (timeout, connection error,
\* unexpected status): the HTTPError / ConnectionError reaches main().
TransportFailure ==
    /\ Running
    /\ Raise("HTTPError")
    /\ UNCHANGED <<env, links, summary, strainNo, cur, sweep, calls, linksAtSweep>>

\* ProcessingSummary.print_summary: reads the counters and the three lists
\* (every attribute it reads is set in __init__) and prints them; it changes
\* no counter.
print_summary_unreported(s) == s
print_summary(s) == [s EXCEPT !.printed = TRUE]

\* main(): "except Exception" logs, "finally" prints the processing summary.
Finally ==
    /\ pc = "finally"
    /\ summary' = print_summary(summary)
    /\ pc' = "done"
    /\ UNCHANGED <<env, links, strainNo, cur, sweep, calls, exc, linksAtSweep>>

Next ==
    \/ SkipStrain
    \/ BeginStrain
    \/ StudyStep
    \/ LeftoverStep
    \/ FinishStrain
    \/ StartSweep
    \/ SkipVisitedEntry
    \/ BeginEntry
    \/ EntryLinkStep
    \/ FinishEntry
    \/ SweepPage
    \/ TransportFailure
    \/ Finally

Spec == Init /\ [][Next]_vars

\* The same runs, and the runs of the script with the "already processed"
\* check of process_ice_entries removed.
InitSkipVariants == InitWith(BOOLEAN, BOOLEAN)
SpecSkipVariants == InitSkipVariants /\ [][Next]_vars

\* The same runs, and runs long enough to meet the limits of main(): one
\* strain more than test_edd_strain_limit, all but one of them orphaned, and
\* six ICE entries, which the sweep meets twice over.
CeilingStrains == test_edd_strain_limit + 1
ManyEntries == { EntryOrder[i] : i \in DOMAIN EntryOrder }

InitCeiling ==
    /\ \E a \in LinkSets({ l \in LinkPool : l.id \in {7, 9} }, 1) :
            links = [u \in ManyEntries |-> IF u = "uA" THEN a ELSE {}]
    /\ \E k \in 1..CeilingStrains :
            strains = [i \in 1..CeilingStrains |-> IF i = k THEN "uA" ELSE ""]
    /\ studies = [s \in StudyIds |->
                    [exists |-> TRUE, name |-> IF s = 1 THEN "A" ELSE "B", strains |-> {}]]
    /\ cfg \in [cleaning : {FALSE}, stub : BOOLEAN, skip : {TRUE}]
    /\ entryType = [u \in ManyEntries |-> STRAIN]
    /\ pc = "strain"
    /\ summary = ProcessingSummary
    /\ strainNo = 1
    /\ cur = NoStrain
    /\ sweep = NoSweep
    /\ calls = << >>
    /\ exc = ""
    /\ linksAtSweep = links
    /\ api = NoApi

InitWithCeiling == Init \/ InitCeiling
SpecCeiling == InitWithCeiling /\ [][Next]_vars

\* ---------------------------------------------------------------------------
\* The ice client called directly: calls of its three writing methods on one
\* entry, on an IceApi or on an IceTestStub, with arguments drawn from
\* bounded sets.  api.prev is the previous call, api.first the entry's links
\* before the first call, api.before its links before the last call.
\* ---------------------------------------------------------------------------
MaxApiCalls == 2

ApiStudyUrls == { Url("edd", "study", 1, TRUE, FALSE), Url("edd", "study", 1, TRUE, TRUE) }
ApiOldUrls == { None, Url("edd", "study", 1, TRUE, TRUE), Url("edd", "perl", 1, FALSE, TRUE) }
LinkArgs ==
    [study_url : ApiStudyUrls, study_name : Names,
     old_study_name : {"", "A"}, old_study_url : ApiOldUrls]

InitIceApi ==
    /\ \E a \in LinkSets(LinkPool, MaxLinks) :
            /\ links = [u \in Uuids |-> IF u = "uA" THEN a ELSE {}]
            /\ api = [NoApi EXCEPT !.first = a]
    /\ strains = << >>
    /\ studies = [s \in StudyIds |->
                    [exists |-> TRUE, name |-> IF s = 1 THEN "A" ELSE "B", strains |-> {}]]
    /\ cfg \in [cleaning : {FALSE}, stub : BOOLEAN, skip : {TRUE}]
    /\ entryType = [u \in Uuids |-> STRAIN]
    /\ pc = "api"
    /\ summary = ProcessingSummary
    /\ strainNo = 1
    /\ cur = NoStrain
    /\ sweep = NoSweep
    /\ calls = << >>
    /\ exc = ""
    /\ linksAtSweep = links

ApiStep(fn, a, r) ==
    /\ pc = "api" /\ api.n < MaxApiCalls
    /\ links' = [links EXCEPT !["uA"] = r.ls]
    /\ api' = [n |-> api.n + 1, fn |-> fn, args |-> a,
               prev |-> <<api.fn, api.args>>, first |-> api.first,
               before |-> links["uA"], posts |-> r.posts,
               deletes |-> r.deletes, result |-> r.result]
    /\ UNCHANGED <<strains, studies, cfg, entryType, pc, summary, strainNo, cur,
                   sweep, calls, exc, linksAtSweep>>

IsPost(c) == c.fn = "ice.POST"

CallLink ==
    \E a \in LinkArgs :
        LET r == IceLink(cfg.stub, links["uA"], "uA", 1, a.study_url, a.study_name,
                         a.old_study_name, a.old_study_url)
        IN  ApiStep("link_entry_to_study", a,
                    [ls |-> r.ls, posts |-> SelectSeq(r.calls, IsPost),
                     deletes |-> << >>, result |-> None])
CallUnlink ==
    \E u \in ApiStudyUrls :
        LET r == IceUnlink(cfg.stub, links["uA"], "uA", 1, u)
        IN  ApiStep("unlink_entry_from_study", [study_url |-> u],
                    [ls |-> r.ls, posts |-> << >>, deletes |-> r.deletes,
                     result |-> r.result])
CallRemove ==
    \E l \in links["uA"] :
        LET r == IceRemove(cfg.stub, links["uA"], "uA", l)
        IN  ApiStep("remove_experiment_link", [link_id |-> l.id],
                    [ls |-> r.ls, posts |-> << >>, deletes |-> r.deletes,
                     result |-> None])

NextIceApi ==
    \/ CallLink
    \/ CallUnlink
    \/ CallRemove

SpecIceApi == InitIceApi /\ [][NextIceApi]_vars
\* ---------------------------------------------------------------------------
\* IcePagedResult.of applied to replies of every total count, result limit
\* and offset within the bounds, and to the page its next_page names.
\* ---------------------------------------------------------------------------
MaxCount == 6
MaxLimit == 3

PageArgs == [count : 0..MaxCount, result_limit : 1..MaxLimit,
             offset : 0..(MaxCount + MaxLimit)]

InitPaging ==
    /\ \E a \in PageArgs : api = [NoApi EXCEPT !.args = a]
    /\ links = [u \in Uuids |-> {}]
    /\ strains = << >>
    /\ studies = [s \in StudyIds |->
                    [exists |-> TRUE, name |-> IF s = 1 THEN "A" ELSE "B", strains |-> {}]]
    /\ cfg = [cleaning |-> FALSE, stub |-> FALSE, skip |-> TRUE]
    /\ entryType = [u \in Uuids |-> STRAIN]
    /\ pc = "paging"
    /\ summary = ProcessingSummary
    /\ strainNo = 1
    /\ cur = NoStrain
    /\ sweep = NoSweep
    /\ calls = << >>
    /\ exc = ""
    /\ linksAtSweep = links

\* The reply to the query is read.
PageOf ==
    /\ pc = "paging" /\ api.fn = ""
    /\ api' = [api EXCEPT !.n = @ + 1, !.fn = "IcePagedResult.of",
                          !.result = IcePagedResult_of(api.args.count,
                                                       api.args.result_limit,
                                                       api.args.offset)]
    /\ UNCHANGED <<strains, studies, cfg, entryType, links, pc, summary, strainNo,
                   cur, sweep, calls, exc, linksAtSweep>>

\* The page that next_page names is queried and its reply read.
FollowNextPage ==
    /\ pc = "paging" /\ api.fn = "IcePagedResult.of"
    /\ ~api.result.none /\ api.result.next_page # NoPage
    /\ api.result.next_page <= MaxCount + MaxLimit
    /\ LET a == [api.args EXCEPT !.offset = api.result.next_page]
       IN  api' = [api EXCEPT !.n = @ + 1, !.args = a, !.prev = <<api.fn, api.args>>,
                              !.result = IcePagedResult_of(a.count, a.result_limit,
                                                           a.offset)]
    /\ UNCHANGED <<strains, studies, cfg, entryType, links, pc, summary, strainNo,
                   cur, sweep, calls, exc, linksAtSweep>>

NextPaging ==
    \/ PageOf
    \/ FollowNextPage

SpecPaging == InitPaging /\ [][NextPaging]_vars
\* ---------------------------------------------------------------------------
\* ICE_ENTRY_URL_PATTERN and parse_entry_id (ice.py).  A URL text is
\* <scheme>://<path[1]>/.../<path[n]> with an optional trailing slash; a path
\* segment holds no slash.  The pattern, compiled with re.IGNORECASE, is
\*     ^(http|https)://(.+)/entry/([\w-]+)/?$
\* ---------------------------------------------------------------------------
MaxSegments == 4

UrlSchemes == {"http", "https", "HTTPS", "ftp"}
NUMERIC_ID == "49194"
UUID_ID == "761ec36a-cd17-41b8-a348-45d7552d4f4f"
UrlHosts == {"registry.jbei.org", "registry-test.jbei.org"}
UrlSegments == {"foobar", "entry", "ENTRY", "admin", "experiments", NUMERIC_ID, UUID_ID}

\* unicode.lower() of the texts above.
LowerText(t) == CASE t = "HTTPS" -> "https" [] t = "ENTRY" -> "entry" [] OTHER -> t

\* [\w-]+ matches a segment made of letters, digits, '_' and '-' only: every
\* segment above; a host name holds dots.
MatchesIdentifier(seg) == seg \notin UrlHosts

EntryUrls ==
    [scheme : UrlSchemes,
     path : { p \in UNION { [1..n -> UrlHosts \cup UrlSegments] : n \in 1..MaxSegments } :
                /\ p[1] \in UrlHosts
                /\ \A i \in 2..Len(p) : p[i] \in UrlSegments },
     slash : BOOLEAN]

\* ICE_ENTRY_URL_PATTERN.match(uri): groups 1 to 3, or NoMatch.  "(.+)" takes
\* one character at least and any number of segments.
NoMatch == << >>
ICE_ENTRY_URL_PATTERN(uri) ==
    LET n == Len(uri.path)
    IN  IF /\ LowerText(uri.scheme) \in {"http", "https"}
           /\ n >= 3
           /\ LowerText(uri.path[n - 1]) = "entry"
           /\ MatchesIdentifier(uri.path[n])
        THEN <<uri.scheme, SubSeq(uri.path, 1, n - 2), uri.path[n]>>
        ELSE NoMatch

\* parse_entry_id: group 3, or NoId for the Python None.
NoId == ""
parse_entry_id(ice_entry_url) ==
    LET match == ICE_ENTRY_URL_PATTERN(ice_entry_url)
    IN  IF match = NoMatch THEN NoId ELSE match[3]

InitEntryUrl ==
    /\ \E u \in EntryUrls : api = [NoApi EXCEPT !.args = u]
    /\ links = [u \in Uuids |-> {}]
    /\ strains = << >>
    /\ studies = [s \in StudyIds |->
                    [exists |-> TRUE, name |-> IF s = 1 THEN "A" ELSE "B", strains |-> {}]]
    /\ cfg = [cleaning |-> FALSE, stub |-> FALSE, skip |-> TRUE]
    /\ entryType = [u \in Uuids |-> STRAIN]
    /\ pc = "entry_url"
    /\ summary = ProcessingSummary
    /\ strainNo = 1
    /\ cur = NoStrain
    /\ sweep = NoSweep
    /\ calls = << >>
    /\ exc = ""
    /\ linksAtSweep = links

ParseEntryId ==
    /\ pc = "entry_url" /\ api.fn = ""
    /\ api' = [api EXCEPT !.n = @ + 1, !.fn = "parse_entry_id",
                          !.result = [match |-> ICE_ENTRY_URL_PATTERN(api.args),
                                      id |-> parse_entry_id(api.args)]]
    /\ UNCHANGED <<strains, studies, cfg, entryType, links, pc, summary, strainNo,
                   cur, sweep, calls, exc, linksAtSweep>>

NextEntryUrl == ParseEntryId

SpecEntryUrl == InitEntryUrl /\ [][NextEntryUrl]_vars
\* ---------------------------------------------------------------------------
\* HmacAuth (jbei/rest/auth.py): the signing of one request, applied to
\* requests drawn from bounded sets.
\* ---------------------------------------------------------------------------
MaxParams == 3

KEY == "yJwU0chpercYs/R4YmCUxhbRZBHM4WqpO3ZH0ZW6+4X+/aTodSGTI2w5jeBxWgJXNN1JNQIg02Ic3ZnZtSEVYA=="
KeyIds == {"test.jbei.org", "unregistered.jbei.org"}
\* HmacAuth.KEYSTORE after register_key("test.jbei.org", KEY); "" stands for
\* the None of KEYSTORE.get(key_id, None).
KEYSTORE == [k \in KeyIds |-> IF k = "test.jbei.org" THEN KEY ELSE ""]
NoUsername == ""
Usernames == {"WCMorrell", NoUsername}

\* Texts of a query string; "%61" is the percent-encoding of "a".
ParamNames == {"a", "b", "%61"}
ParamValues == {"1", "2"}
unquote(t) == IF t = "%61" THEN "a" ELSE t
quote(t) == t
\* Byte order of the texts that can stand first in a normalised parameter.
ByteRank(t) == CASE t = "1" -> 1 [] t = "2" -> 2 [] t = "a" -> 3 [] t = "b" -> 4

\* A query string is the sequence of its "name=value" items.
Queries == UNION { [1..n -> ParamNames \X ParamValues] : n \in 0..MaxParams }
Requests ==
    [method : {"GET", "POST"}, netloc : {"registry-test.jbei.org"},
     path : {"/rest/accesstoken"}, query : Queries, body : {"", "{}"},
     headers : {<< >>}]

\* sorted(params, key=lambda p: p[0]): a stable sort on the first field alone.
RECURSIVE sorted(_)
sorted(params) ==
    IF params = << >> THEN << >>
    ELSE LET p == Head(params)
             rest == sorted(Tail(params))
             k == Cardinality({ i \in 1..Len(rest) : ByteRank(rest[i][1]) < ByteRank(p[1]) })
         IN  SubSeq(rest, 1, k) \o <<p>> \o SubSeq(rest, k + 1, Len(rest))

normalized(query) ==
    [i \in 1..Len(query) |-> <<quote(unquote(query[i][1])), quote(unquote(query[i][2]))>>]

sort_parameters_unsorted(query) == normalized(query)
sort_parameters(query) == sorted(normalized(query))

build_message(username, request) ==
    <<username, request.method, request.netloc, request.path,
      sort_parameters(request.query), request.body>>

\* base64(HMAC-SHA1(key, msg)), kept as the pair it is computed from: two
\* signatures are equal exactly when key and message are.
build_signature(secret_key, username, request) ==
    [hmac_sha1 |-> build_message(username, request), key |-> secret_key]

\* HmacAuth(key_id, username)(request): the request with its Authorization
\* header set, or the exception raised.
HmacAuth(key_id, username, request) ==
    IF KEYSTORE[key_id] = ""
    THEN [exc |-> "ValueError", request |-> request]
    ELSE IF username = NoUsername
    THEN [exc |-> "TypeError", request |-> request]
    ELSE [exc |-> "",
          request |-> [request EXCEPT !.headers =
                          <<"1", key_id, username,
                            build_signature(KEYSTORE[key_id], username, request)>>]]

InitHmac ==
    /\ \E k \in KeyIds, u \in Usernames, r \in Requests :
          api = [NoApi EXCEPT !.args = [key_id |-> k, username |-> u, request |-> r]]
    /\ links = [u \in Uuids |-> {}]
    /\ strains = << >>
    /\ studies = [s \in StudyIds |->
                    [exists |-> TRUE, name |-> IF s = 1 THEN "A" ELSE "B", strains |-> {}]]
    /\ cfg = [cleaning |-> FALSE, stub |-> FALSE, skip |-> TRUE]
    /\ entryType = [u \in Uuids |-> STRAIN]
    /\ pc = "hmac"
    /\ summary = ProcessingSummary
    /\ strainNo = 1
    /\ cur = NoStrain
    /\ sweep = NoSweep
    /\ calls = << >>
    /\ exc = ""
    /\ linksAtSweep = links

\* auth(request)
HmacCall ==
    /\ pc = "hmac" /\ api.fn = ""
    /\ api' = [api EXCEPT !.n = @ + 1, !.fn = "__call__",
                          !.result = HmacAuth(api.args.key_id, api.args.username,
                                              api.args.request)]
    /\ UNCHANGED <<strains, studies, cfg, entryType, links, pc, summary, strainNo,
                   cur, sweep, calls, exc, linksAtSweep>>

\* auth(request) once more, on the request the first call returned.
HmacCallAgain ==
    /\ pc = "hmac" /\ api.fn = "__call__" /\ api.result.exc = ""
    /\ api' = [api EXCEPT !.n = @ + 1, !.fn = "again", !.prev = api.result,
                          !.args.request = api.result.request,
                          !.result = HmacAuth(api.args.key_id, api.args.username,
                                              api.result.request)]
    /\ UNCHANGED <<strains, studies, cfg, entryType, links, pc, summary, strainNo,
                   cur, sweep, calls, exc, linksAtSweep>>

\* auth(request') where request' is the request with its query items in
\* another order.
HmacCallReordered ==
    /\ pc = "hmac" /\ api.fn = "__call__" /\ api.result.exc = ""
    /\ \E f \in Permutations(1..Len(api.args.request.query)) :
          LET q == api.args.request.query
              reordered == [api.args.request EXCEPT !.query = [i \in 1..Len(q) |-> q[f[i]]]]
          IN  /\ reordered # api.args.request
              /\ api' = [api EXCEPT !.n = @ + 1, !.fn = "reordered", !.prev = api.result,
                                    !.before = {q},
                                    !.args.request = reordered,
                                    !.result = HmacAuth(api.args.key_id, api.args.username,
                                                        reordered)]
    /\ UNCHANGED <<strains, studies, cfg, entryType, links, pc, summary, strainNo,
                   cur, sweep, calls, exc, linksAtSweep>>

NextHmac == HmacCall \/ HmacCallAgain \/ HmacCallReordered

SpecHmac == InitHmac /\ [][NextHmac]_vars
\* ---------------------------------------------------------------------------
\* ProcessingSummary: its link recording operations, applied in any order to
\* a new summary, up to MaxRecords of them.
\* ---------------------------------------------------------------------------
MaxRecords == 4

InitSummary ==
    /\ summary = ProcessingSummary
    /\ api = NoApi
    /\ links = [u \in Uuids |-> {}]
    /\ strains = << >>
    /\ studies = [s \in StudyIds |->
                    [exists |-> TRUE, name |-> IF s = 1 THEN "A" ELSE "B", strains |-> {}]]
    /\ cfg = [cleaning |-> FALSE, stub |-> FALSE, skip |-> TRUE]
    /\ entryType = [u \in Uuids |-> STRAIN]
    /\ pc = "summary"
    /\ strainNo = 1
    /\ cur = NoStrain
    /\ sweep = NoSweep
    /\ calls = << >>
    /\ exc = ""
    /\ linksAtSweep = links

\* One recording operation: fn its name, s the summary it leaves.
Record(fn, s) ==
    /\ pc = "summary" /\ api.n < MaxRecords
    /\ summary' = s
    /\ api' = [api EXCEPT !.n = @ + 1, !.fn = fn, !.prev = summary]
    /\ UNCHANGED <<strains, studies, cfg, entryType, links, pc, strainNo, cur, sweep,
                   calls, exc, linksAtSweep>>

RecordRemovedDevelopmentLink ==
    Record("removed_development_link", removed_development_link(summary))
RecordRemovedTestLink == Record("removed_test_link", removed_test_link(summary))
RecordRemovedInvalidLink == Record("removed_invalid_link", removed_invalid_link(summary))
RecordRenamedUnmaintainedLink ==
    Record("renamed_unmaintained_link", renamed_unmaintained_link(summary))
RecordSkippedValidLink == Record("skipped_valid_link", skipped_valid_link(summary))
RecordUpdatedPerlLink == Record("updated_perl_link", updated_perl_link(summary))
RecordCreatedMissingLink == Record("created_missing_link", created_missing_link(summary))
RecordSkippedExternalLink == Record("skipped_external_link", skipped_external_link(summary))

NextSummary ==
    \/ RecordRemovedDevelopmentLink
    \/ RecordRemovedTestLink
    \/ RecordRemovedInvalidLink
    \/ RecordRenamedUnmaintainedLink
    \/ RecordSkippedValidLink
    \/ RecordUpdatedPerlLink
    \/ RecordCreatedMissingLink
    \/ RecordSkippedExternalLink

SpecSummary == InitSummary /\ [][NextSummary]_vars
\* ===========================================================================
\* Properties
\* ===========================================================================
\* The call records of cs that remove, or send a POST for, the link link_id.
WritesTo(cs, link_id) ==
    { i \in DOMAIN cs : /\ cs[i].fn \in {"ice.remove_experiment_link", "ice.POST"}
                        /\ cs[i].link = link_id }

\* The study loop is at a study for which the snapshot holds a link at the
\* canonical URL (up to letter case).
HeadStudyLink ==
    IF pc = "studies" /\ cur.studies # << >>
    THEN DictGet(cur.all, Lower(get_abs_study_browser_url(Head(cur.studies))))
    ELSE None

\* C1: on a strain whose study is already linked at the canonical URL under
\* the study's name (what a first run leaves behind), the study loop issues
\* no create, update or remove and reports the link as a skipped valid link.
C1_SecondRunSkipsValidLink ==
    [][ (HeadStudyLink # None /\ StudyStep
            /\ HeadStudyLink.label = studies[Head(cur.studies)].name)
        => /\ exc' = ""
           /\ calls' = calls
           /\ links' = links
           /\ summary'.valid_links_skipped = summary.valid_links_skipped + 1 ]_vars

\* A link the classifier has no rule for: not at EDD's current or Perl-era
\* study URL, not on a developer machine, and not on a test deployment of
\* EDD unless the ICE deployment being cleaned is a test deployment too.
MatchesNoStudyPattern(l) == ~IsStudyUrl(l.url) /\ ~IsPerlStudyUrl(l.url)
IsExternal(l) ==
    /\ MatchesNoStudyPattern(l)
    /\ ~is_development_url(l.url)
    /\ ~(~cfg.cleaning /\ is_edd_test_instance_url(l.url, cfg.cleaning))

TakenBy(items, items2) ==
    { l \in cur.all : \/ (l \in items /\ l \notin items2)
                      \/ (Lower(l.url) \in items /\ Lower(l.url) \notin items2) }

\* C3: in the leftover loop and in the sweep alike, the step that takes a
\* link on a developer machine removes it, consulting EDD for nothing.
C3_DevelopmentLinkRemovedInBothPasses ==
    [][ \A l \in TakenBy(cur.items, cur'.items) :
          ((LeftoverStep \/ EntryLinkStep) /\ is_development_url(l.url))
          => /\ exc' = ""
             /\ calls' = calls \o <<Call("ice.remove_experiment_link", cur.entry,
                                         l.id, l.url, "", 0)>>
             /\ summary'.development_links_pruned = summary.development_links_pruned + 1
      ]_vars

\* C4: in the sweep, an entry whose uuid is in the visited set is passed over:
\* no call is made for it, no link changes, and only the count of previously
\* processed entries grows.
C4_VisitedEntrySkipped ==
    [][ (/\ pc = "sweep" /\ sweep.idx <= Len(sweep.page)
         /\ is_edd_strain_processed(summary, sweep.page[sweep.idx])
         /\ pc' # "finally")
        => /\ calls' = << >>
           /\ links' = links
           /\ cur' = cur
           /\ sweep'.idx = sweep.idx + 1
           /\ summary' = [summary EXCEPT !.previously_processed_strains_skipped = @ + 1]
      ]_vars

\* C4 witness: the sweep has passed over a visited entry that has links.
C4_Witness ==
    /\ summary.previously_processed_strains_skipped > 0
    /\ \E u \in summary.processed_edd_strain_uuids \cap Uuids : links[u] # {}

HeadStudyLegacyLinks ==
    IF pc = "studies" /\ cur.studies # << >>
    THEN { l \in cur.all : IsPerlStudyUrl(l.url) /\ l.url.study = Head(cur.studies) }
    ELSE {}

\* The calls cs2 has beyond cs that link the entry to the study at the
\* canonical URL under the study's name.
LinkCalls(cs, cs2, study) ==
    { i \in DOMAIN cs2 \ DOMAIN cs :
        /\ cs2[i].fn = "ice.link_entry_to_study"
        /\ cs2[i].url = Lower(get_abs_study_browser_url(study))
        /\ cs2[i].label = studies[study].name }

\* C6: for a study with a link at its Perl-era URL and none at its current
\* URL, the study loop issues one update to the canonical URL and the study's
\* name and reports one Perl-era link updated.
C6_LegacyLinkUpdatedInPlace ==
    [][ (StudyStep /\ HeadStudyLink = None /\ HeadStudyLegacyLinks # {})
        => /\ exc' = ""
           /\ Cardinality(LinkCalls(calls, calls', Head(cur.studies))) = 1
           /\ summary'.perl_links_updated = summary.perl_links_updated + 1 ]_vars

\* C7: for a study with no link at its current URL nor at a Perl-era URL, the
\* study loop issues exactly one create-or-update call with the canonical URL
\* and the study's name, and the count of links created grows by one.
C7_MissingLinkCreated ==
    [][ (StudyStep /\ HeadStudyLink = None /\ HeadStudyLegacyLinks = {})
        => /\ Len(calls') = Len(calls) + 1
           /\ Cardinality(LinkCalls(calls, calls', Head(cur.studies))) = 1
           /\ summary'.missing_links_created = summary.missing_links_created + 1 ]_vars

\* C8: for a study with a link at its canonical URL up to letter case, the
\* study loop creates nothing: no link is counted as created, no POST without
\* a link id is sent, and the entry keeps one link per URL.
C8_CaseInsensitiveMatchCreatesNothing ==
    [][ (StudyStep /\ HeadStudyLink # None)
        => /\ summary'.missing_links_created = summary.missing_links_created
           /\ \A i \in DOMAIN calls' \ DOMAIN calls :
                ~(calls'[i].fn = "ice.POST" /\ calls'[i].link = 0)
           /\ UniqueUrls(links'[cur.entry]) ]_vars

\* C9: a strain with an empty registry_id is recorded as orphaned and left
\* with no call to ICE or EDD made and no link changed.
C9_OrphanedStrainMakesNoCall ==
    [][ (/\ pc = "strain" /\ strainNo <= Len(strains) /\ ~hit_strain_limit
         /\ strains[strainNo] = ""
         /\ pc' # "finally")
        => /\ calls' = << >>
           /\ links' = links
           /\ pc' = "strain" /\ strainNo' = strainNo + 1
           /\ summary'.orphaned_edd_strains = Append(summary.orphaned_edd_strains, strainNo)
      ]_vars

\* C9 witness: an orphaned strain has been recorded.
C9_Witness == summary.orphaned_edd_strains # << >> /\ calls = << >> /\ pc = "strain"

\* C10: a strain whose registry_id names an entry that is no Strain is
\* recorded as a non-strain reference; the entry's links are not fetched and
\* nothing is created, updated or removed.
C10_NonStrainEntryUntouched ==
    [][ (/\ pc = "strain" /\ strainNo <= Len(strains) /\ ~hit_strain_limit
         /\ strains[strainNo] \in Uuids
         /\ pc' # "finally")
        => (entryType[strains[strainNo]] # STRAIN
            => /\ calls' = <<Call("ice.get_entry", strains[strainNo], 0, None, "", 0)>>
               /\ links' = links
               /\ pc' = "strain" /\ strainNo' = strainNo + 1
               /\ summary'.non_strain_ice_parts_referenced =
                    Append(summary.non_strain_ice_parts_referenced, strains[strainNo]))
      ]_vars

\* C10 witness: a non-strain reference has been recorded for an entry that has
\* links.
C10_Witness ==
    /\ summary.non_strain_ice_parts_referenced # << >>
    /\ \E i \in DOMAIN summary.non_strain_ice_parts_referenced :
         links[summary.non_strain_ice_parts_referenced[i]] # {}

\* C11: an orphaned strain, a stepchild strain or a non-strain reference is
\* recorded and skipped; the run goes on with the next strain, no exception
\* is raised and no link changes.
C11_AnomalousStrainSkipped ==
    [][ (/\ pc = "strain" /\ strainNo <= Len(strains) /\ ~hit_strain_limit
         /\ ~IsStrainEntry(strains[strainNo])
         /\ pc' # "finally")
        => /\ pc' = "strain" /\ exc' = "" /\ strainNo' = strainNo + 1
           /\ links' = links
           /\ Len(summary'.orphaned_edd_strains) + Len(summary'.stepchild_edd_strains)
                + Len(summary'.non_strain_ice_parts_referenced)
              = Len(summary.orphaned_edd_strains) + Len(summary.stepchild_edd_strains)
                + Len(summary.non_strain_ice_parts_referenced) + 1
           /\ (strains[strainNo] = ""
                 => summary'.orphaned_edd_strains
                      = Append(summary.orphaned_edd_strains, strainNo))
           /\ (strains[strainNo] # "" /\ strains[strainNo] \notin Uuids
                 => summary'.stepchild_edd_strains
                      = Append(summary.stepchild_edd_strains, strainNo))
           /\ (strains[strainNo] \in Uuids
                 => summary'.non_strain_ice_parts_referenced
                      = Append(summary.non_strain_ice_parts_referenced, strains[strainNo]))
      ]_vars

\* C11 witness: after a stepchild strain was recorded, the next strain of the
\* page is being reconciled.
C11_Witness ==
    /\ summary.stepchild_edd_strains # << >>
    /\ pc \in {"studies", "leftover"}
    /\ strainNo > 1 /\ strains[strainNo - 1] \notin Uuids /\ strains[strainNo - 1] # ""

\* C12: the step that takes a link on a test deployment of EDD (and on no
\* developer machine) removes it and counts a test link pruned when the ICE
\* deployment is no test deployment; when it is one, the rule removes and
\* counts nothing.
C12_TestLinkRemovedUnlessCleaningTest ==
    [][ \A l \in TakenBy(cur.items, cur'.items) :
          (/\ LeftoverStep \/ EntryLinkStep
           /\ ~is_development_url(l.url)
           /\ is_edd_test_instance_url(l.url, cfg.cleaning))
          => IF ~cfg.cleaning
             THEN /\ exc' = ""
                  /\ calls' = calls \o <<Call("ice.remove_experiment_link", cur.entry,
                                              l.id, l.url, "", 0)>>
                  /\ summary'.test_links_pruned = summary.test_links_pruned + 1
             ELSE summary'.test_links_pruned = summary.test_links_pruned
      ]_vars

\* The calls cs2 has beyond cs, as a set of call records.
NewCalls(cs, cs2) == { cs2[i] : i \in DOMAIN cs2 \ DOMAIN cs }

\* EDD has nothing left of the study: it is absent or no strain is in it.
StudyGone(study_pk) ==
    ~studies[study_pk].exists \/ studies[study_pk].strains = {}

\* C13: the step that takes a Perl-era link, in the leftover loop and in the
\* sweep alike, asks EDD for the embedded study, removes the link only if the
\* study is gone and otherwise rewrites it to the study's current URL and name.
C13_LegacyLinkResolvedAgainstEdd ==
    [][ \A l \in TakenBy(cur.items, cur'.items) :
          (/\ LeftoverStep \/ EntryLinkStep
           /\ IsPerlStudyUrl(l.url))
          => /\ \E c \in NewCalls(calls, calls') :
                  c.fn = "edd.get_study_strains" /\ c.pk = l.url.study
             /\ IF StudyGone(l.url.study)
                THEN /\ \E c \in NewCalls(calls, calls') :
                          c.fn = "ice.remove_experiment_link" /\ c.link = l.id
                     /\ summary'.invalid_links_pruned = summary.invalid_links_pruned + 1
                ELSE /\ \E c \in NewCalls(calls, calls') :
                          /\ c.fn = "ice.link_entry_to_study"
                          /\ c.url = get_abs_study_browser_url(l.url.study)
                          /\ c.label = studies[l.url.study].name
                     /\ \A c \in NewCalls(calls, calls') :
                          c.fn # "ice.remove_experiment_link"
                     /\ summary'.perl_links_updated = summary.perl_links_updated + 1
      ]_vars

\* C14: the step that takes a Perl-era link whose study EDD does not have
\* (NotFound) removes the link and the loop goes on: no exception ends the run.
C14_NotFoundRemovesLegacyLink ==
    [][ \A l \in TakenBy(cur.items, cur'.items) :
          (/\ LeftoverStep \/ EntryLinkStep
           /\ IsPerlStudyUrl(l.url)
           /\ ~studies[l.url.study].exists)
          => /\ exc' = "" /\ pc' = pc
             /\ \E c \in NewCalls(calls, calls') :
                  c.fn = "ice.remove_experiment_link" /\ c.link = l.id
      ]_vars

\* C15: once an exception has left a handler (a failed EDD or ICE request, or
\* any other error), nothing more is done but the summary: no strain is
\* taken, no entry is swept, no call is issued and no link changes.
C15_FailureAbortsRun ==
    [][ exc # ""
        => /\ pc = "finally" /\ pc' = "done"
           /\ exc' = exc
           /\ links' = links /\ calls' = calls
           /\ strainNo' = strainNo /\ cur' = cur /\ sweep' = sweep
           /\ summary' = [summary EXCEPT !.printed = TRUE] ]_vars

\* C15 witness: a run ended by a failed request in the strain pass, with a
\* strain still unprocessed and the sweep never started.
C15_Witness ==
    /\ pc = "done" /\ exc = "HTTPError"
    /\ strainNo <= Len(strains) /\ sweep = NoSweep

\* C16: a run that has started processing and has ended, normally or through
\* a fatal failure in the strain pass or in the sweep, has reported its
\* summary: the process is never finished with the summary unprinted.
C16_SummaryReportedBeforeFinish ==
    pc = "done" => summary.printed

\* A run that failed inside the sweep, after counting entries and links, and
\* has finished.
C16_Witness ==
    /\ pc = "done" /\ exc # "" /\ sweep # NoSweep
    /\ summary.total_ice_entries_processed > 0
    /\ summary.existing_links_processed > 0
    /\ summary.printed

C19_StubSendsNoWrite ==
    (cfg.stub /\ api.n > 0)
        => /\ api.posts = << >> /\ api.deletes = << >>
           /\ links["uA"] = api.first
           /\ api.result = IF api.fn = "unlink_entry_from_study" THEN TRUE ELSE None

\* Two calls on the stub, the last of them link_entry_to_study for a study
\* the entry has no link to: an IceApi would have sent a POST.
C19_Witness ==
    /\ cfg.stub /\ api.n = MaxApiCalls
    /\ api.fn = "link_entry_to_study"
    /\ \A l \in api.before : Lower(l.url) # Lower(api.args.study_url)

\* C18: a page that IcePagedResult.of builds carries a next-page cursor
\* exactly when results remain beyond it, that is when
\* offset + limit < total count; the last page carries none.
C18_NextPageIffResultsRemain ==
    (api.fn = "IcePagedResult.of" /\ ~api.result.none)
        => ((api.result.next_page # NoPage)
                <=> (api.args.offset + api.args.result_limit < api.args.count))

\* C20: ICE_ENTRY_URL_PATTERN matches a URL exactly when it is an http or
\* https URL <scheme>://<host>/entry/<id>, with or without a trailing slash,
\* whose <id> is a numeric id or a UUID; groups 1 to 3 are then the scheme,
\* the host and the id, and parse_entry_id returns the id.  Any other URL
\* (another scheme, another path, a segment after the id, an id such as
\* 'foobar') is not matched and parse_entry_id returns None for it.
IsEntryUrl(uri) ==
    LET n == Len(uri.path)
    IN  /\ LowerText(uri.scheme) \in {"http", "https"}
        /\ n >= 3
        /\ LowerText(uri.path[n - 1]) = "entry"
        /\ uri.path[n] \in {NUMERIC_ID, UUID_ID}
C20_EntryUrlPatternMatchesExactly ==
    api.fn = "parse_entry_id"
        => LET uri == api.args
               n == Len(uri.path)
           IN  IF IsEntryUrl(uri)
               THEN /\ api.result.match
                          = <<uri.scheme, SubSeq(uri.path, 1, n - 2), uri.path[n]>>
                    /\ api.result.id = uri.path[n]
               ELSE /\ api.result.match = NoMatch
                    /\ api.result.id = NoId

\* The names of the query items of q, decoded, are pairwise distinct.
DistinctParamNames(q) ==
    \A i, j \in 1..Len(q) : i # j => quote(unquote(q[i][1])) # quote(unquote(q[j][1]))

\* The header of a signed request holds '1', the key id, the user id and the
\* signature of the request's own fields under the registered key.
HeaderAsSpecified(a, r) ==
    /\ r.exc = ""
    /\ Len(r.request.headers) = 4
    /\ r.request.headers[1] = "1"
    /\ r.request.headers[2] = a.key_id
    /\ r.request.headers[3] = a.username
    /\ r.request.headers[4].key = KEYSTORE[a.key_id]
    /\ r.request.headers[4].hmac_sha1[1] = a.username
    /\ r.request.headers[4].hmac_sha1[2] = a.request.method
    /\ r.request.headers[4].hmac_sha1[3] = a.request.netloc
    /\ r.request.headers[4].hmac_sha1[4] = a.request.path
    /\ r.request.headers[4].hmac_sha1[6] = a.request.body
    /\ LET sq == r.request.headers[4].hmac_sha1[5]
       IN  /\ Len(sq) = Len(a.request.query)
           /\ \A i \in 1..Len(sq) - 1 : ByteRank(sq[i][1]) <= ByteRank(sq[i + 1][1])

FirstEmptyPage == ((Len(ICE_ENTRIES) + ICE_RESULT_PAGE_SIZE - 1) \div ICE_RESULT_PAGE_SIZE) + 1

\* A measure of the work the sweep has left: the pages it has yet to request,
\* then the entries left on the page it holds, then the elements left of the
\* entry it is in.  0 once process_ice_entries has returned or raised.
SweepVariant ==
    IF pc \notin {"sweep", "entry"} THEN 0
    ELSE LET perEntry == Cardinality(LinkPool) + 2
             perPage == Len(ICE_ENTRIES) * perEntry + 2
             pagesLeft == FirstEmptyPage + 1 - sweep.ice_page_num
             after == Len(sweep.page) - sweep.idx
         IN  pagesLeft * perPage +
             (IF pc = "sweep" THEN (after + 1) * perEntry + 1
              ELSE after * perEntry + 2 + Cardinality(cur.items))

FetchesPage(cs) == \E i \in DOMAIN cs : cs[i].fn = "ice.search_entries"

EntriesMet(s) == s.total_ice_entries_processed + s.previously_processed_strains_skipped

\* C23: within one run nothing is handled twice.  In the strain pass the
\* links still to be handled of the entry's snapshot only shrink; the sweep
\* never requests again the page it holds, and it meets no more entries than
\* the search holds, each entry being processed or skipped once.
C23_NothingHandledTwice ==
    [][ /\ (pc \in {"studies", "leftover"}) => (cur'.items \subseteq cur.items)
        /\ (SweepPage /\ FetchesPage(calls')) => (sweep'.page # sweep.page)
        /\ EntriesMet(summary') <= Len(ICE_ENTRIES)
      ]_vars

\* The step ends the reconciliation of the Strain entry cur.entry: the study
\* loop and the leftover loop are through and nothing was raised.
CompletesReconciliation ==
    /\ FinishStrain
    /\ IsStrainEntry(cur.entry) /\ cur.entry = strains[strainNo]
    /\ cur.items = {} /\ exc = ""

C25_StaleLinkRemovedAndStrainCompletes ==
    [][ \A l \in TakenBy(cur.items, cur'.items) :
          (/\ LeftoverStep
           /\ IsStudyUrl(l.url) /\ ~IsPerlStudyUrl(l.url)
           /\ ~is_development_url(l.url)
           /\ ~is_edd_test_instance_url(l.url, cfg.cleaning))
          => /\ calls' = calls \o <<Call("ice.remove_experiment_link", cur.entry,
                                         l.id, l.url, "", 0)>>
             /\ summary'.invalid_links_pruned = summary.invalid_links_pruned + 1
             /\ l \notin cur'.items
             /\ exc' = ""
             /\ pc' = "leftover"
      ]_vars

\* C26: for a study whose current URL holds a link under a label other than
\* the study's name, the study loop issues one update of that link to the
\* study's name, counts one renamed link and no created link, sends no POST
\* that creates a link, and takes the link out of the links the leftover loop
\* will treat as stale.
C26_RenamedLinkUpdatedInPlace ==
    [][ (/\ StudyStep
         /\ HeadStudyLink # None
         /\ HeadStudyLink.label # studies[Head(cur.studies)].name)
        => /\ Cardinality(LinkCalls(calls, calls', Head(cur.studies))) = 1
           /\ summary'.unmaintained_links_renamed = summary.unmaintained_links_renamed + 1
           /\ summary'.missing_links_created = summary.missing_links_created
           /\ \A c \in NewCalls(calls, calls') : c.fn = "ice.POST" => c.link = HeadStudyLink.id
           /\ HeadStudyLink \notin cur'.unprocessed
      ]_vars

\* C27: in the sweep, the step that takes a link in the current study-URL
\* format (on no developer machine, no test link to be pruned) asks EDD for
\* the study's strains; it removes the link and counts an invalid link pruned
\* exactly when EDD has no strain for the study or does not know the study,
\* and otherwise leaves the entry's links as they are and counts a skipped
\* valid link.
C27_SweepRemovesLinkIffStudyGone ==
    [][ \A l \in TakenBy(cur.items, cur'.items) :
          (/\ EntryLinkStep
           /\ IsStudyUrl(l.url) /\ ~IsPerlStudyUrl(l.url)
           /\ ~is_development_url(l.url)
           /\ ~is_edd_test_instance_url(l.url, cfg.cleaning))
          => /\ \E c \in NewCalls(calls, calls') :
                  c.fn = "edd.get_study_strains" /\ c.pk = l.url.study
             /\ IF StudyGone(l.url.study)
                THEN /\ \E c \in NewCalls(calls, calls') :
                          c.fn = "ice.remove_experiment_link" /\ c.link = l.id
                     /\ summary'.invalid_links_pruned = summary.invalid_links_pruned + 1
                ELSE /\ \A c \in NewCalls(calls, calls') : c.fn = "edd.get_study_strains"
                     /\ links' = links
                     /\ summary'.valid_links_skipped = summary.valid_links_skipped + 1
      ]_vars

C29_EarlyStopAtBoundariesOnly ==
    [][ /\ (BeginStrain \/ SkipStrain) => (strainNo - 1 < test_edd_strain_limit)
        /\ (BeginEntry \/ SkipVisitedEntry) => (sweep.tested < test_ice_entry_limit)
        /\ (pc = "strain" /\ strainNo - 1 = test_edd_strain_limit)
              => (pc' \in {"sweep", "finally"})
        /\ (pc \in {"sweep", "entry"} /\ sweep'.tested = test_ice_entry_limit)
              => (pc' = "finally")
        /\ (pc \in {"studies", "leftover"} /\ exc' = "")
              => \/ pc' \in {"studies", "leftover"}
                 \/ /\ pc' = "strain" /\ cur.items = {} /\ cur.studies = << >>
                    /\ strainNo' = strainNo + 1
                    /\ cur.entry \in summary'.processed_edd_strain_uuids
        /\ (pc = "entry" /\ exc' = "")
              => \/ pc' = "entry"
                 \/ /\ cur.items = {}
                    /\ summary'.total_ice_entries_processed =
                           summary.total_ice_entries_processed + 1
                    /\ sweep'.tested = sweep.tested + 1
      ]_vars

\* A run stopped early twice: the strain loop at its limit with a strain left,
\* the sweep at its limit with entries left on the page.
C29_Witness ==
    /\ pc = "done" /\ exc = ""
    /\ strainNo = test_edd_strain_limit + 1 /\ strainNo <= Len(strains)
    /\ sweep.hit_test_limit /\ sweep.tested = test_ice_entry_limit
    /\ sweep.idx <= Len(sweep.page)

\* The six counts of existing links handled, added up.
ExistingLinkOutcomes(s) ==
    s.development_links_pruned + s.test_links_pruned + s.invalid_links_pruned
        + s.unmaintained_links_renamed + s.perl_links_updated + s.valid_links_skipped

\* C30: after any sequence of recording operations existing_links_processed
\* is the sum of the development, test and invalid links pruned, the
\* unmaintained links renamed, the perl links updated and the valid links
\* skipped; recording a created link or a skipped external link leaves it as
\* it was.
C30_ExistingLinksProcessedIsSum ==
    (pc = "summary")
        => /\ summary.existing_links_processed = ExistingLinkOutcomes(summary)
           /\ api.fn \in {"created_missing_link", "skipped_external_link"}
                 => /\ summary.existing_links_processed = api.prev.existing_links_processed
                    /\ ExistingLinkOutcomes(summary) = ExistingLinkOutcomes(api.prev)

C30_Witness ==
    /\ pc = "summary" /\ api.n = MaxRecords
    /\ api.fn = "created_missing_link"
    /\ summary.perl_links_updated > 0
    /\ summary.skipped_external_links > 0
    /\ summary.existing_links_processed > 1
====
